---- MODULE Spec2Model ----
(***************************************************************************)
(* State-machine model of humanfriendly/testing.py: the context managers   *)
(* PatchedAttribute, PatchedItem, TemporaryDirectory, CustomSearchPath and *)
(* MockedProgram, and the retry() helper.                                  *)
(*                                                                         *)
(* Conventions.  A Python value that may be the NOTHING sentinel is an     *)
(* option: <<>> is NOTHING, <<v>> is the value v.  A string is a sequence  *)
(* of tokens, so that os.pathsep.join / str.split are computed and not     *)
(* assumed.  A dict is a function whose DOMAIN is its key set.  A handler  *)
(* is a function on a "world" record w holding the objects it touches;     *)
(* w.exc is the exception in flight ("" when none), w.ret the value the    *)
(* handler returned and w.calls the library calls it made, in order.       *)
(***************************************************************************)
EXTENDS Integers, Sequences, FiniteSets, TLC

VARIABLES
  pc,        \* position of the driving test: "init", "body", "exited", ...
  obj,       \* object patched by PatchedAttribute: [inst, klass]
  pattr,     \* the PatchedAttribute instance
  mapping,   \* mapping patched by PatchedItem (os.environ for CustomSearchPath)
  dirs,      \* filesystem: the directories that exist
  files,     \* filesystem: the files that exist, as [dir, name]
  scope,     \* the PatchedItem / TemporaryDirectory / CustomSearchPath / MockedProgram instance
  target,    \* value bound by "with ... as target" (returned by __enter__)
  ret,       \* value returned by the last handler
  exc,       \* exception the last handler raised to its caller ("" = none)
  calls,     \* library calls made by the last handler, in order
  bodyExc,   \* exception raised by the protected body ("" = none)
  before,    \* what the test observed just before __enter__: [value, dirs]
  steps,     \* number of steps the protected body has taken
  func,      \* retry(): the operation and the call's arguments
  pause,     \* retry(): the local pause, in tenths of a second
  now,       \* time.time(), in tenths of a second
  deadline,  \* retry(): the local timeout after "timeout += time.time()"
  toFail,    \* number of attempts of the operation that will still fail
  attempts,  \* number of times retry() has called the operation
  outcome,   \* how retry() ended: "running", "returned", "raised", "timedout"
  nest,      \* nested patches of one attribute or key: [stack, entered, deepest]
  capture,   \* the CaptureOutput instance
  buffers,   \* the text held by each StringIO object
  written,   \* what the protected code wrote, in order, as [stream, text]
  cli        \* run_cli(): its options, what sys held before it, and its result

vars == <<pc, obj, pattr, mapping, dirs, files, scope, target, ret, exc, calls,
          bodyExc, before, steps, func, pause, now, deadline, toFail, attempts,
          outcome, nest, capture, buffers, written, cli>>

retryVars == <<func, pause, now, deadline, toFail, attempts, outcome>>
attrVars  == <<obj, pattr>>
itemVars  == <<mapping, dirs, files, scope>>
nestVars  == <<nest>>
cliVars   == <<capture, buffers, written, cli>>

-----------------------------------------------------------------------------
(* Bounds *)

MaxBodySteps == 2

(* Python values used for attributes, including None and falsy ones *)
Values == {"None", "False", "old", "new"}

AttrNames == {"argv", "stdout"}

NOTHING == <<>>

Some(v) == <<v>>

NoObject == [inst |-> <<>>, klass |-> <<>>]

(* all dicts with keys in K and values in V *)
Dicts(K, V) == UNION {[S -> V] : S \in SUBSET K}

Without(d, k) == [x \in DOMAIN d \ {k} |-> d[x]]

With(d, k, v) == [x \in DOMAIN d \cup {k} |-> IF x = k THEN v ELSE d[x]]

-----------------------------------------------------------------------------
(* Python strings, as sequences of tokens *)

pathsep == ":"

defpath == <<"bin", ":", "usr">>

Strs == {<<>>, <<"u">>, <<"u", ":", "v">>}

Keys == {"PATH", "HOME"}

DirNames == {<<"t1">>, <<"t2">>, <<"t3">>}

(* return values *)
RNone == [kind |-> "None", val |-> <<>>]

RObj(k) == [kind |-> k, val |-> <<>>]

RStr(s) == [kind |-> "str", val |-> s]

Call(op, arg) == [op |-> op, arg |-> arg]

RECURSIVE split(_, _)
(* str.split(sep) *)
split(s, sep) ==
  IF \A i \in 1..Len(s) : s[i] # sep
    THEN <<s>>
    ELSE LET i == CHOOSE k \in 1..Len(s) :
                    s[k] = sep /\ \A j \in 1..(k - 1) : s[j] # sep
         IN  <<SubSeq(s, 1, i - 1)>> \o split(SubSeq(s, i + 1, Len(s)), sep)

RECURSIVE join(_, _)
(* sep.join(parts) *)
join(sep, parts) ==
  IF parts = <<>> THEN <<>>
  ELSE IF Len(parts) = 1 THEN parts[1]
  ELSE parts[1] \o <<sep>> \o join(sep, Tail(parts))

-----------------------------------------------------------------------------
(* Method resolution order and super() *)

MRO(class) ==
  CASE class = "ContextManager"    -> <<"ContextManager">>
    [] class = "PatchedItem"       -> <<"PatchedItem", "ContextManager">>
    [] class = "TemporaryDirectory" -> <<"TemporaryDirectory", "ContextManager">>
    [] class = "CustomSearchPath"  ->
         <<"CustomSearchPath", "PatchedItem", "TemporaryDirectory", "ContextManager">>
    [] class = "MockedProgram"     ->
         <<"MockedProgram", "CustomSearchPath", "PatchedItem", "TemporaryDirectory",
           "ContextManager">>

(* super(class, self): the class after `class` in the MRO of type(self) *)
Super(class, self) ==
  LET mro == MRO(self.class)
      i   == CHOOSE k \in 1..Len(mro) : mro[k] = class
  IN  mro[i + 1]

RECURSIVE call_enter(_, _)
RECURSIVE call_exit(_, _)

-----------------------------------------------------------------------------
(* ContextManager *)

ContextManager_enter(w) == [w EXCEPT !.ret = RObj("self")]

ContextManager_exit(w) == [w EXCEPT !.ret = RNone]

-----------------------------------------------------------------------------
(* PatchedAttribute; its world is [self, obj, exc, ret] *)

getattr(o, name, default) ==
  IF name \in DOMAIN o.inst THEN Some(o.inst[name])
  ELSE IF name \in DOMAIN o.klass THEN Some(o.klass[name])
  ELSE default

setattr(w, name, value) ==
  [w EXCEPT !.obj.inst = With(w.obj.inst, name, value)]

delattr(w, name) ==
  IF name \in DOMAIN w.obj.inst
    THEN [w EXCEPT !.obj.inst = Without(w.obj.inst, name)]
    ELSE [w EXCEPT !.exc = "AttributeError"]

PatchedAttribute_init(name, value) ==
  [attribute_to_patch |-> name, patched_value |-> value, original_value |-> NOTHING]

(* variant: the original value is read after the attribute is patched *)
PatchedAttribute_enter_late(w) ==
  LET w1 == ContextManager_enter(w)
      w3 == setattr(w1, w1.self.attribute_to_patch, w1.self.patched_value)
      w2 == [w3 EXCEPT !.self.original_value =
                          getattr(w3.obj, w3.self.attribute_to_patch, NOTHING)]
  IN  [w2 EXCEPT !.ret = RObj("object_to_patch")]

PatchedAttribute_enter(w) ==
  LET w1 == ContextManager_enter(w)
      w2 == [w1 EXCEPT !.self.original_value =
                          getattr(w1.obj, w1.self.attribute_to_patch, NOTHING)]
      w3 == setattr(w2, w2.self.attribute_to_patch, w2.self.patched_value)
  IN  [w3 EXCEPT !.ret = RObj("object_to_patch")]

(* variant: tests the truth of original_value instead of its identity with NOTHING *)
PatchedAttribute_exit_truthy(w) ==
  LET w1 == ContextManager_exit(w)
  IN  IF w1.self.original_value = NOTHING
         \/ w1.self.original_value[1] \in {"None", "False"}
        THEN delattr(w1, w1.self.attribute_to_patch)
        ELSE setattr(w1, w1.self.attribute_to_patch, w1.self.original_value[1])

PatchedAttribute_exit(w) ==
  LET w1 == ContextManager_exit(w)
  IN  IF w1.self.original_value = NOTHING
        THEN delattr(w1, w1.self.attribute_to_patch)
        ELSE setattr(w1, w1.self.attribute_to_patch, w1.self.original_value[1])

-----------------------------------------------------------------------------
(* CaptureOutput; its world is [self, obj, exc, ret, calls] with obj the   *)
(* sys module.  A StringIO object is named by a string and its text is     *)
(* kept in the function buffers.                                           *)

(* for name in ('stdin', 'stdout', 'stderr') *)
StreamNames == <<"stdin", "stdout", "stderr">>

(* StringIO(input), StringIO(), StringIO() *)
StringIO_buffers(input) ==
  [b \in {"StringIO_in", "StringIO_out", "StringIO_err"} |->
     IF b = "StringIO_in" THEN input ELSE <<>>]

(* variant: the two streams are never merged *)
CaptureOutput_init_separate(merged, input) ==
  LET streams == [stdin |-> "StringIO_in", stdout |-> "StringIO_out",
                  stderr |-> "StringIO_err"]
  IN  [stdin |-> streams.stdin, stdout |-> streams.stdout, stderr |-> streams.stderr,
       patched_attributes |->
         [i \in 1..3 |-> PatchedAttribute_init(StreamNames[i], streams[StreamNames[i]])]]

CaptureOutput_init(merged, input) ==
  LET streams == [stdin |-> "StringIO_in", stdout |-> "StringIO_out",
                  stderr |-> IF merged THEN "StringIO_out" ELSE "StringIO_err"]
  IN  [stdin |-> streams.stdin, stdout |-> streams.stdout, stderr |-> streams.stderr,
       patched_attributes |->
         [i \in 1..3 |-> PatchedAttribute_init(StreamNames[i], streams[StreamNames[i]])]]

(* context.__enter__() for the i-th patched attribute *)
context_enter(w, i) ==
  LET c == w.self.patched_attributes[i]
      r == PatchedAttribute_enter([self |-> c, obj |-> w.obj, exc |-> "", ret |-> RNone])
  IN  [w EXCEPT !.self.patched_attributes[i] = r.self, !.obj = r.obj, !.exc = r.exc,
                !.calls = Append(w.calls, Call("__enter__", <<c.attribute_to_patch>>))]

(* context.__exit__(exc_type, exc_value, traceback) for the i-th patched attribute *)
context_exit(w, i) ==
  LET c == w.self.patched_attributes[i]
      r == PatchedAttribute_exit([self |-> c, obj |-> w.obj, exc |-> "", ret |-> RNone])
  IN  [w EXCEPT !.self.patched_attributes[i] = r.self, !.obj = r.obj, !.exc = r.exc,
                !.calls = Append(w.calls, Call("__exit__", <<c.attribute_to_patch>>))]

RECURSIVE enter_contexts(_, _)
(* for context in self.patched_attributes: context.__enter__() *)
enter_contexts(w, i) ==
  IF i > Len(w.self.patched_attributes) \/ w.exc # "" THEN w
  ELSE enter_contexts(context_enter(w, i), i + 1)

RECURSIVE exit_contexts(_, _)
(* for context in self.patched_attributes: context.__exit__(...) *)
exit_contexts(w, i) ==
  IF i > Len(w.self.patched_attributes) \/ w.exc # "" THEN w
  ELSE exit_contexts(context_exit(w, i), i + 1)

CaptureOutput_enter(w) ==
  LET w1 == enter_contexts(ContextManager_enter(w), 1)
  IN  IF w1.exc # "" THEN w1 ELSE [w1 EXCEPT !.ret = RObj("self")]

(* variant: the loop leaves out the first patch *)
CaptureOutput_exit_skipfirst(w) ==
  LET w1 == exit_contexts(ContextManager_exit(w), 2)
  IN  IF w1.exc # "" THEN w1 ELSE [w1 EXCEPT !.ret = RNone]

CaptureOutput_exit(w) ==
  LET w1 == exit_contexts(ContextManager_exit(w), 1)
  IN  IF w1.exc # "" THEN w1 ELSE [w1 EXCEPT !.ret = RNone]

(* self.stdout.getvalue() *)
CaptureOutput_getvalue(self, bufs) == bufs[self.stdout]

-----------------------------------------------------------------------------
(* The classes composed by inheritance; their world is                     *)
(* [self, mapping, dirs, files, fresh, exc, ret, calls], where fresh holds *)
(* the names tempfile.mkdtemp() will pick next.                            *)

None == <<>>

Scope_init(class) ==
  [class |-> class, item_to_patch |-> "PATH", patched_value |-> <<>>,
   original_value |-> NOTHING, temporary_directory |-> None,
   isolated_search_path |-> FALSE, program_name |-> "prog",
   program_signal_file |-> None]

Log(w, op, arg) == [w EXCEPT !.calls = Append(w.calls, Call(op, arg))]

(* object_to_patch[key] = value *)
setitem(w, key, value) ==
  Log([w EXCEPT !.mapping = With(w.mapping, key, value)], "setitem", <<key>>)

(* del object_to_patch[key] *)
delitem(w, key) ==
  IF key \in DOMAIN w.mapping
    THEN Log([w EXCEPT !.mapping = Without(w.mapping, key)], "delitem", <<key>>)
    ELSE Log([w EXCEPT !.exc = "KeyError"], "delitem", <<key>>)

(* tempfile.mkdtemp(): creates a directory under a name not in use *)
mkdtemp(w) ==
  LET d == Head(w.fresh)
  IN  Log([w EXCEPT !.dirs = w.dirs \cup {d}, !.fresh = Tail(w.fresh),
                    !.ret = RStr(d)], "mkdtemp", d)

(* shutil.rmtree(d) *)
rmtree(w, d) ==
  IF d \in w.dirs
    THEN Log([w EXCEPT !.dirs = w.dirs \ {d},
                       !.files = {f \in w.files : f.dir # d}], "rmtree", d)
    ELSE Log([w EXCEPT !.exc = "FileNotFoundError"], "rmtree", d)

(* os.path.isfile(f) *)
isfile(w, f) == f \in w.files

PatchedItem_init(key, value) ==
  [Scope_init("PatchedItem") EXCEPT !.item_to_patch = key, !.patched_value = value]

PatchedItem_enter(w) ==
  LET w1 == call_enter(Super("PatchedItem", w.self), w)
      k  == w1.self.item_to_patch
      w2 == [w1 EXCEPT !.self.original_value =
                          IF k \in DOMAIN w1.mapping THEN Some(w1.mapping[k])
                          ELSE NOTHING]
      w3 == setitem(w2, k, w2.self.patched_value)
  IN  IF w1.exc # "" THEN w1 ELSE [w3 EXCEPT !.ret = RObj("object_to_patch")]

(* variant: tests the truth of original_value instead of its identity with NOTHING *)
PatchedItem_exit_truthy(w) ==
  LET w1 == call_exit(Super("PatchedItem", w.self), w)
      k  == w1.self.item_to_patch
  IN  IF w1.exc # "" THEN w1
      ELSE IF w1.self.original_value = NOTHING \/ w1.self.original_value[1] = <<>>
        THEN [delitem(w1, k) EXCEPT !.ret = RNone]
        ELSE [setitem(w1, k, w1.self.original_value[1]) EXCEPT !.ret = RNone]

PatchedItem_exit(w) ==
  LET w1 == call_exit(Super("PatchedItem", w.self), w)
      k  == w1.self.item_to_patch
  IN  IF w1.exc # "" THEN w1
      ELSE IF w1.self.original_value = NOTHING
        THEN [delitem(w1, k) EXCEPT !.ret = RNone]
        ELSE [setitem(w1, k, w1.self.original_value[1]) EXCEPT !.ret = RNone]

TemporaryDirectory_init == Scope_init("TemporaryDirectory")

TemporaryDirectory_enter(w) ==
  LET w1 == call_enter(Super("TemporaryDirectory", w.self), w)
      w2 == mkdtemp(w1)
  IN  IF w1.exc # "" THEN w1
      ELSE [w2 EXCEPT !.self.temporary_directory = Some(w2.ret.val)]

(* variant: removes the tree but keeps the stored pathname *)
TemporaryDirectory_exit_keep(w) ==
  LET w1 == call_exit(Super("TemporaryDirectory", w.self), w)
      w2 == rmtree(w1, w1.self.temporary_directory[1])
  IN  IF w1.exc # "" THEN w1
      ELSE IF w1.self.temporary_directory # None
        THEN [w2 EXCEPT !.ret = RNone]
        ELSE [w1 EXCEPT !.ret = RNone]

TemporaryDirectory_exit(w) ==
  LET w1 == call_exit(Super("TemporaryDirectory", w.self), w)
      w2 == rmtree(w1, w1.self.temporary_directory[1])
  IN  IF w1.exc # "" THEN w1
      ELSE IF w1.self.temporary_directory # None
        THEN IF w2.exc # "" THEN w2
             ELSE [w2 EXCEPT !.self.temporary_directory = None, !.ret = RNone]
        ELSE [w1 EXCEPT !.ret = RNone]

(* os.environ.get('PATH', os.defpath) *)
current_search_path(m) == IF "PATH" \in DOMAIN m THEN m["PATH"] ELSE defpath

CustomSearchPath_init(class, isolated, m) ==
  [Scope_init(class) EXCEPT !.isolated_search_path = isolated,
                            !.patched_value = current_search_path(m)]

(* variant: keeps the search path computed by __init__ *)
CustomSearchPath_patched_value_stale(self, directory, m) ==
  IF self.isolated_search_path THEN directory
  ELSE join(pathsep, <<directory>> \o split(self.patched_value, pathsep))

CustomSearchPath_patched_value(self, directory, m) ==
  IF self.isolated_search_path THEN directory
  ELSE join(pathsep, <<directory>> \o split(current_search_path(m), pathsep))

CustomSearchPath_enter(w) ==
  LET w1 == TemporaryDirectory_enter(w)
      directory == w1.ret.val
      w2 == [w1 EXCEPT !.self.patched_value =
                          CustomSearchPath_patched_value(w1.self, directory, w1.mapping)]
      w3 == PatchedItem_enter(w2)
  IN  IF w1.exc # "" THEN w1
      ELSE IF w3.exc # "" THEN w3
      ELSE [w3 EXCEPT !.ret = RStr(directory)]

CustomSearchPath_exit(w) == call_exit(Super("CustomSearchPath", w.self), w)

File(d, name) == [dir |-> d, name |-> name]

MockedProgram_init(m) == CustomSearchPath_init("MockedProgram", FALSE, m)

MockedProgram_enter(w) ==
  LET w1 == call_enter(Super("MockedProgram", w.self), w)
      directory == w1.ret.val
      w2 == [w1 EXCEPT !.self.program_signal_file = Some(File(directory, "program-was-run")),
                       !.files = w1.files \cup {File(directory, w1.self.program_name)}]
  IN  IF w1.exc # "" THEN w1 ELSE [w2 EXCEPT !.ret = RStr(directory)]

(* try: <raises pending> finally: return <w>  -- the return discards pending *)
finally_return(pending, w) == w

(* the assert statement of MockedProgram.__exit__: "" when it passes *)
MockedProgram_assert(w) ==
  IF w.self.program_signal_file # None /\ isfile(w, w.self.program_signal_file[1])
    THEN "" ELSE "AssertionError"

(* variant: the cleanup is skipped when the assertion fails (no try/finally) *)
MockedProgram_exit_nofinally(w) ==
  LET w0 == Log(w, "isfile", <<"program_signal_file">>)
  IN  IF MockedProgram_assert(w0) # ""
        THEN [w0 EXCEPT !.exc = MockedProgram_assert(w0)]
        ELSE call_exit(Super("MockedProgram", w0.self), w0)

(* variant: the finally block returns True *)
MockedProgram_exit_suppress(w) ==
  LET w0 == Log(w, "isfile", <<"program_signal_file">>)
  IN  [finally_return(MockedProgram_assert(w0),
                      call_exit(Super("MockedProgram", w0.self), w0))
        EXCEPT !.ret = RObj("True")]

MockedProgram_exit(w) ==
  LET w0 == Log(w, "isfile", <<"program_signal_file">>)
  IN  finally_return(MockedProgram_assert(w0),
                     call_exit(Super("MockedProgram", w0.self), w0))

call_enter(class, w) ==
  CASE class = "ContextManager"     -> ContextManager_enter(w)
    [] class = "PatchedItem"        -> PatchedItem_enter(w)
    [] class = "TemporaryDirectory" -> TemporaryDirectory_enter(w)
    [] class = "CustomSearchPath"   -> CustomSearchPath_enter(w)
    [] class = "MockedProgram"      -> MockedProgram_enter(w)

call_exit(class, w) ==
  CASE class = "ContextManager"     -> ContextManager_exit(w)
    [] class = "PatchedItem"        -> PatchedItem_exit(w)
    [] class = "TemporaryDirectory" -> TemporaryDirectory_exit(w)
    [] class = "CustomSearchPath"   -> CustomSearchPath_exit(w)
    [] class = "MockedProgram"      -> MockedProgram_exit(w)

-----------------------------------------------------------------------------
(* The driving test:  scope = Class(...);  with scope as target: body      *)

AttrWorld == [self |-> pattr, obj |-> obj, exc |-> "", ret |-> RNone]

World(fresh) ==
  [self |-> scope, mapping |-> mapping, dirs |-> dirs, files |-> files,
   fresh |-> fresh, exc |-> "", ret |-> RNone, calls |-> <<>>]

RECURSIVE which(_, _, _)
(* the first directory of the search path that holds an executable `name` *)
which(parts, name, fs) ==
  IF parts = <<>> THEN None
  ELSE IF File(Head(parts), name) \in fs THEN Some(Head(parts))
  ELSE which(Tail(parts), name, fs)

PreDirs == {<<"home">>}

NoNest == [stack |-> <<>>, entered |-> 0, deepest |-> 0]

NoCli ==
  [test |-> "none", merged |-> FALSE, saved |-> <<>>, end |-> "", code |-> <<>>,
   returncode |-> <<>>, output |-> <<>>, raised |-> ""]

InitNoCli ==
  /\ capture = CaptureOutput_init(FALSE, <<>>)
  /\ buffers = StringIO_buffers(<<>>)
  /\ cli = NoCli

InitCommon ==
  /\ pc = "init"
  /\ nest = NoNest /\ written = <<>>
  /\ ret = RNone /\ target = RNone /\ exc = "" /\ calls = <<>> /\ bodyExc = ""
  /\ steps = 0
  /\ before = [value |-> NOTHING, dirs |-> {}]

InitNoAttr == obj = NoObject /\ pattr = PatchedAttribute_init("argv", "None")

InitNoItem ==
  /\ mapping = <<>> /\ dirs = PreDirs /\ files = {}
  /\ scope = Scope_init("ContextManager")

NoFunc == [kind |-> "raise", forever |-> FALSE, n |-> 0, timeout |-> 0, start |-> 0]

InitNoRetry ==
  /\ func = NoFunc
  /\ pause = 0 /\ now = 0 /\ deadline = 0 /\ toFail = 0 /\ attempts = 0
  /\ outcome = "none"

InitAttr ==
  /\ InitCommon /\ InitNoItem /\ InitNoRetry /\ InitNoCli
  /\ \E i \in Dicts(AttrNames, Values), k \in Dicts(AttrNames, {"None", "old"}) :
       obj = [inst |-> i, klass |-> k]
  /\ \E n \in AttrNames, v \in Values : pattr = PatchedAttribute_init(n, v)

InitItem ==
  /\ InitCommon /\ InitNoAttr /\ InitNoRetry /\ InitNoCli
  /\ mapping \in Dicts(Keys, Strs) /\ dirs = PreDirs /\ files = {}
  /\ \E k \in Keys, v \in Strs : scope = PatchedItem_init(k, v)

InitTmp ==
  /\ InitCommon /\ InitNoAttr /\ InitNoRetry /\ InitNoCli
  /\ mapping \in Dicts({"PATH"}, Strs) /\ dirs = PreDirs
  /\ files \in SUBSET {File(<<"home">>, "data")}
  /\ scope = TemporaryDirectory_init

InitPath ==
  /\ InitCommon /\ InitNoAttr /\ InitNoRetry /\ InitNoCli
  /\ mapping \in Dicts({"PATH"}, Strs) /\ dirs = PreDirs /\ files = {}
  /\ \/ \E isolated \in BOOLEAN :
          scope = CustomSearchPath_init("CustomSearchPath", isolated, mapping)
     \/ scope = MockedProgram_init(mapping)

(* with PatchedAttribute(obj, name, value): *)
AttrEnter ==
  /\ pc = "init"
  /\ LET w == PatchedAttribute_enter(AttrWorld)
     IN  /\ obj' = w.obj /\ pattr' = w.self /\ ret' = w.ret /\ exc' = w.exc
         /\ target' = w.ret
  /\ before' = [value |-> getattr(obj, pattr.attribute_to_patch, NOTHING), dirs |-> {}]
  /\ pc' = "body"
  /\ UNCHANGED <<itemVars, retryVars, nestVars, cliVars, calls, bodyExc, steps>>

(* the protected body assigns the attribute *)
AttrBodySet ==
  /\ pc = "body" /\ steps < MaxBodySteps
  /\ \E v \in Values :
       obj' = setattr(AttrWorld, pattr.attribute_to_patch, v).obj
  /\ steps' = steps + 1
  /\ UNCHANGED <<pc, pattr, itemVars, retryVars, nestVars, cliVars, target, ret, exc, calls, bodyExc, before>>

(* the protected body deletes the attribute *)
AttrBodyDel ==
  /\ pc = "body" /\ steps < MaxBodySteps
  /\ pattr.attribute_to_patch \in DOMAIN obj.inst
  /\ obj' = delattr(AttrWorld, pattr.attribute_to_patch).obj
  /\ steps' = steps + 1
  /\ UNCHANGED <<pc, pattr, itemVars, retryVars, nestVars, cliVars, target, ret, exc, calls, bodyExc, before>>

(* the protected body raises *)
BodyRaise ==
  /\ pc = "body" /\ bodyExc = ""
  /\ bodyExc' = "ValueError"
  /\ UNCHANGED <<pc, attrVars, itemVars, retryVars, nestVars, cliVars, target, ret, exc, calls, before, steps>>

AttrExit ==
  /\ pc = "body"
  /\ LET w == PatchedAttribute_exit(AttrWorld)
     IN  /\ obj' = w.obj /\ pattr' = w.self /\ ret' = w.ret /\ exc' = w.exc
  /\ pc' = "exited"
  /\ UNCHANGED <<itemVars, retryVars, nestVars, cliVars, target, calls, bodyExc, before, steps>>

(* the environment changes between the construction of the scope and its entry *)
EnvChange ==
  /\ pc = "init"
  /\ \/ \E v \in Strs : mapping' = With(mapping, "PATH", v)
     \/ mapping' = Without(mapping, "PATH")
  /\ mapping' # mapping
  /\ pc' = "ready"
  /\ UNCHANGED <<attrVars, dirs, files, scope, retryVars, nestVars, cliVars, target, ret, exc, calls,
                 bodyExc, before, steps>>

ScopeEnter ==
  /\ pc \in {"init", "ready"}
  /\ \E d1, d2 \in DirNames \ dirs :
       /\ d1 # d2
       /\ LET w == call_enter(scope.class, World(<<d1, d2>>))
          IN  /\ scope' = w.self /\ mapping' = w.mapping /\ dirs' = w.dirs
              /\ files' = w.files /\ ret' = w.ret /\ exc' = w.exc /\ calls' = w.calls
              /\ target' = w.ret
  /\ before' = [value |-> IF scope.item_to_patch \in DOMAIN mapping
                            THEN Some(mapping[scope.item_to_patch]) ELSE NOTHING,
                dirs |-> dirs]
  /\ pc' = "body"
  /\ UNCHANGED <<attrVars, retryVars, nestVars, cliVars, bodyExc, steps>>

BodyFrame == UNCHANGED <<pc, attrVars, scope, retryVars, nestVars, cliVars, target, ret, exc, calls,
                         bodyExc, before>>

(* the protected body assigns the patched item *)
BodySetItem ==
  /\ pc = "body" /\ steps < MaxBodySteps
  /\ \E v \in Strs : mapping' = With(mapping, scope.item_to_patch, v)
  /\ steps' = steps + 1
  /\ BodyFrame /\ UNCHANGED <<dirs, files>>

(* the protected body deletes the patched item *)
BodyDelItem ==
  /\ pc = "body" /\ steps < MaxBodySteps
  /\ scope.item_to_patch \in DOMAIN mapping
  /\ mapping' = Without(mapping, scope.item_to_patch)
  /\ steps' = steps + 1
  /\ BodyFrame /\ UNCHANGED <<dirs, files>>

(* the protected body writes a file into the directory it was given *)
BodyCreateFile ==
  /\ pc = "body" /\ steps < MaxBodySteps
  /\ target.val \in dirs
  /\ files' = files \cup {File(target.val, "data")}
  /\ steps' = steps + 1
  /\ BodyFrame /\ UNCHANGED <<mapping, dirs>>

(* the protected body empties the directory it was given *)
BodyEmptyDir ==
  /\ pc = "body" /\ steps < MaxBodySteps
  /\ target.val \in dirs
  /\ \E f \in files : f.dir = target.val
  /\ files' = {f \in files : f.dir # target.val}
  /\ steps' = steps + 1
  /\ BodyFrame /\ UNCHANGED <<mapping, dirs>>

(* the protected body removes the directory it was given *)
BodyRemoveDir ==
  /\ pc = "body" /\ steps < MaxBodySteps
  /\ target.val \in dirs
  /\ dirs' = dirs \ {target.val}
  /\ files' = {f \in files : f.dir # target.val}
  /\ steps' = steps + 1
  /\ BodyFrame /\ UNCHANGED mapping

(* the protected body runs the program by name: the shell finds the mock on   *)
(* the search path and the mock's script creates the signal file              *)
BodyRunProgram ==
  /\ pc = "body" /\ steps < MaxBodySteps
  /\ scope.class = "MockedProgram"
  /\ LET found == which(split(current_search_path(mapping), pathsep),
                        scope.program_name, files)
     IN  /\ found # None
         /\ files' = IF scope.program_signal_file[1].dir \in dirs
                       THEN files \cup {scope.program_signal_file[1]}
                       ELSE files
  /\ steps' = steps + 1
  /\ BodyFrame /\ UNCHANGED <<mapping, dirs>>

(* scope.__exit__ with the exception info of the body; a test may call it a second time *)
ScopeExit ==
  /\ pc \in {"body", "exited"}
  /\ LET w == call_exit(scope.class, World(<<>>))
     IN  /\ scope' = w.self /\ mapping' = w.mapping /\ dirs' = w.dirs
         /\ files' = w.files /\ ret' = w.ret /\ exc' = w.exc /\ calls' = w.calls
  /\ pc' = IF pc = "body" THEN "exited" ELSE "exited2"
  /\ UNCHANGED <<attrVars, retryVars, nestVars, cliVars, target, bodyExc, before, steps>>

-----------------------------------------------------------------------------
(* CaptureOutput used directly, and run_cli(entry_point, ...)              *)

MaxWrites == 2

Texts == {"a", "b"}

SysNames == {"argv", "stdin", "stdout", "stderr"}

(* the attributes of sys the protected code assigns or deletes *)
BodySysNames == {"argv", "stdout"}

CapWorld == [self |-> capture, obj |-> obj, exc |-> "", ret |-> RNone, calls |-> <<>>]

(* the ways the entry point can end without an error *)
EntryEnds ==
  {[kind |-> "return", code |-> None]} \cup
  {[kind |-> "SystemExit", code |-> c] : c \in {None, Some(0), Some(3)}}

(* lines 121-127: the two scopes of run_cli are entered *)
run_cli_enter(w, argv) ==
  LET c == CaptureOutput_enter(w)
      a == PatchedAttribute_enter([self |-> argv, obj |-> c.obj, exc |-> "",
                                   ret |-> RNone])
  IN  [capture |-> c.self, pattr |-> a.self, obj |-> a.obj, calls |-> c.calls]

(* lines 128-135: the return code run_cli makes of the way the entry point ended *)
run_cli_returncode(end) ==
  IF end.kind = "SystemExit" THEN end.code ELSE Some(0)

(* variant: the scopes are left only when the entry point raised no error *)
run_cli_leave_onsuccess(w, argv, error) ==
  LET a == PatchedAttribute_exit([self |-> argv, obj |-> w.obj, exc |-> "",
                                  ret |-> RNone])
      c == CaptureOutput_exit([w EXCEPT !.obj = a.obj])
  IN  IF error # ""
        THEN [capture |-> w.self, pattr |-> argv, obj |-> w.obj, calls |-> w.calls,
              raised |-> error]
        ELSE [capture |-> c.self, pattr |-> a.self, obj |-> c.obj, calls |-> c.calls,
              raised |-> IF c.exc # "" THEN c.exc ELSE a.exc]

(* leaving the two with statements of run_cli, innermost first: each __exit__ *)
(* runs, and what propagates is the last error raised                          *)
run_cli_leave(w, argv, error) ==
  LET a == PatchedAttribute_exit([self |-> argv, obj |-> w.obj, exc |-> "",
                                  ret |-> RNone])
      c == CaptureOutput_exit([w EXCEPT !.obj = a.obj])
  IN  [capture |-> c.self, pattr |-> a.self, obj |-> c.obj, calls |-> c.calls,
       raised |-> IF c.exc # "" THEN c.exc
                  ELSE IF a.exc # "" THEN a.exc
                  ELSE error]

InitCapture ==
  /\ InitCommon /\ InitNoItem /\ InitNoRetry
  /\ \E out \in {"stdout0", "None"} :
       obj = [inst |-> [argv |-> "argv0", stdin |-> "stdin0", stdout |-> out,
                        stderr |-> "stderr0"],
              klass |-> <<>>]
  /\ pattr = PatchedAttribute_init("argv", "arguments")
  /\ \E merged \in BOOLEAN, test \in {"capture", "run_cli"} :
       /\ capture = CaptureOutput_init(merged, <<"i">>)
       /\ cli = [NoCli EXCEPT !.test = test, !.merged = merged]
  /\ buffers = StringIO_buffers(<<"i">>)

(* with CaptureOutput(merged=..., input=...) as capture: *)
CaptureEnter ==
  /\ pc = "init" /\ cli.test = "capture"
  /\ LET w == CaptureOutput_enter(CapWorld)
     IN  /\ capture' = w.self /\ obj' = w.obj /\ ret' = w.ret /\ exc' = w.exc
         /\ calls' = w.calls /\ target' = w.ret
  /\ cli' = [cli EXCEPT !.saved = obj.inst]
  /\ pc' = "body"
  /\ UNCHANGED <<pattr, itemVars, retryVars, nestVars, buffers, written, bodyExc,
                 before, steps>>

(* run_cli up to the call of the entry point *)
CliStart ==
  /\ pc = "init" /\ cli.test = "run_cli"
  /\ LET r == run_cli_enter(CapWorld, pattr)
     IN  /\ capture' = r.capture /\ pattr' = r.pattr /\ obj' = r.obj
         /\ calls' = r.calls
  /\ cli' = [cli EXCEPT !.saved = obj.inst]
  /\ pc' = "body"
  /\ UNCHANGED <<itemVars, retryVars, nestVars, buffers, written, target, ret, exc,
                 bodyExc, before, steps>>

CapBodyFrame == UNCHANGED <<pc, pattr, itemVars, retryVars, nestVars, capture, cli,
                            target, ret, exc, calls, bodyExc, before>>

(* the protected code writes to sys.stdout or sys.stderr *)
CapBodyWrite ==
  /\ pc = "body" /\ Len(written) < MaxWrites
  /\ \E stream \in {"stdout", "stderr"}, text \in Texts :
       /\ stream \in DOMAIN obj.inst
       /\ buffers' = IF obj.inst[stream] \in DOMAIN buffers
                       THEN [buffers EXCEPT ![obj.inst[stream]] = Append(@, text)]
                       ELSE buffers
       /\ written' = Append(written, [stream |-> stream, text |-> text])
  /\ CapBodyFrame /\ UNCHANGED <<obj, steps>>

(* the protected code assigns sys.argv or one of the sys streams *)
CapBodySetAttr ==
  /\ pc = "body" /\ steps < MaxBodySteps
  /\ \E name \in BodySysNames : obj' = setattr(AttrWorld, name, "other").obj
  /\ steps' = steps + 1
  /\ CapBodyFrame /\ UNCHANGED <<buffers, written>>

(* the protected code deletes sys.argv or one of the sys streams *)
CapBodyDelAttr ==
  /\ pc = "body" /\ steps < MaxBodySteps
  /\ \E name \in BodySysNames \cap DOMAIN obj.inst :
       obj' = delattr(AttrWorld, name).obj
  /\ steps' = steps + 1
  /\ CapBodyFrame /\ UNCHANGED <<buffers, written>>

(* capture.__exit__ with the exception info of the body *)
CaptureExit ==
  /\ pc = "body" /\ cli.test = "capture"
  /\ LET w == CaptureOutput_exit(CapWorld)
     IN  /\ capture' = w.self /\ obj' = w.obj /\ ret' = w.ret /\ exc' = w.exc
         /\ calls' = w.calls
  /\ pc' = "exited"
  /\ UNCHANGED <<pattr, itemVars, retryVars, nestVars, buffers, written, cli, target,
                 bodyExc, before, steps>>

(* run_cli from the end of the entry point on: the entry point raised      *)
(* bodyExc, or ended in one of EntryEnds                                    *)
CliEnd ==
  /\ pc = "body" /\ cli.test = "run_cli"
  /\ \E end \in EntryEnds :
       LET r == run_cli_leave(CapWorld, pattr, bodyExc)
       IN  /\ capture' = r.capture /\ pattr' = r.pattr /\ obj' = r.obj
           /\ calls' = r.calls
           /\ cli' = [cli EXCEPT
                        !.end = IF bodyExc # "" THEN "error" ELSE end.kind,
                        !.code = IF bodyExc # "" THEN None ELSE end.code,
                        !.raised = r.raised,
                        !.returncode = IF bodyExc # "" THEN None
                                       ELSE run_cli_returncode(end),
                        !.output = IF bodyExc # "" THEN <<>>
                                   ELSE CaptureOutput_getvalue(capture, buffers)]
  /\ pc' = "done"
  /\ UNCHANGED <<itemVars, retryVars, nestVars, buffers, written, target, ret, exc,
                 bodyExc, before, steps>>

NextCapture ==
  \/ CaptureEnter \/ CliStart \/ CapBodyWrite \/ CapBodySetAttr \/ CapBodyDelAttr
  \/ BodyRaise \/ CaptureExit \/ CliEnd

SpecCapture == InitCapture /\ [][NextCapture]_vars

NextAttr == AttrEnter \/ AttrBodySet \/ AttrBodyDel \/ BodyRaise \/ AttrExit

NextItem == ScopeEnter \/ BodySetItem \/ BodyDelItem \/ BodyRaise \/ ScopeExit

NextTmp ==
  \/ ScopeEnter \/ BodyCreateFile \/ BodyEmptyDir \/ BodyRemoveDir \/ BodyRaise
  \/ ScopeExit

NextPath ==
  \/ EnvChange \/ ScopeEnter \/ BodySetItem \/ BodyDelItem \/ BodyCreateFile
  \/ BodyRemoveDir \/ BodyRunProgram \/ BodyRaise \/ ScopeExit

SpecAttr == InitAttr /\ [][NextAttr]_vars

SpecItem == InitItem /\ [][NextItem]_vars

SpecTmp == InitTmp /\ [][NextTmp]_vars

SpecPath == InitPath /\ [][NextPath]_vars

(* every scope class: each behaviour uses one of them *)
InitScopes == InitAttr \/ InitItem \/ InitTmp \/ InitPath \/ InitCapture

NextScopes ==
  \/ cli.test # "none" /\ NextCapture
  \/ cli.test = "none" /\ scope.class = "ContextManager" /\ NextAttr
  \/ scope.class = "PatchedItem" /\ NextItem
  \/ scope.class = "TemporaryDirectory" /\ NextTmp
  \/ scope.class \in {"CustomSearchPath", "MockedProgram"} /\ NextPath

SpecScopes == InitScopes /\ [][NextScopes]_vars

-----------------------------------------------------------------------------
(* Scopes nested on one attribute of one object, or on one key of one      *)
(* mapping: with A: with B: with C: ...                                    *)

MaxNest == 3

(* the values the nested scopes and their bodies assign *)
NestValues == {"None", "new"}

NestStrs == {<<>>, <<"u">>}

(* what the patched attribute or key holds: NOTHING when it is absent *)
NestState ==
  IF scope.class = "PatchedItem"
    THEN IF scope.item_to_patch \in DOMAIN mapping
           THEN Some(mapping[scope.item_to_patch]) ELSE NOTHING
    ELSE getattr(obj, pattr.attribute_to_patch, NOTHING)

InitNest ==
  /\ InitCommon /\ InitNoRetry /\ InitNoCli
  /\ \/ /\ InitNoItem
        /\ \E i \in Dicts({"argv"}, {"None", "old"}), k \in Dicts({"argv"}, {"old"}) :
             obj = [inst |-> i, klass |-> k]
        /\ pattr = PatchedAttribute_init("argv", "new")
     \/ /\ InitNoAttr
        /\ mapping \in Dicts({"PATH"}, Strs) /\ dirs = PreDirs /\ files = {}
        /\ scope = PatchedItem_init("PATH", <<>>)

NestFrame == UNCHANGED <<pc, pattr, scope, dirs, files, retryVars, cliVars, target,
                         bodyExc>>

(* the instance entered and, for the test, what it found *)
Pushed(self) ==
  [nest EXCEPT !.stack = Append(@, [self |-> self, before |-> NestState]),
               !.entered = @ + 1,
               !.deepest = IF Len(nest.stack) + 1 > @ THEN Len(nest.stack) + 1 ELSE @]

(* with PatchedAttribute(obj, name, v): / with PatchedItem(mapping, key, v): *)
NestEnter ==
  /\ nest.entered < MaxNest
  /\ \/ /\ scope.class = "ContextManager"
        /\ \E v \in NestValues :
             LET w == PatchedAttribute_enter(
                        [AttrWorld EXCEPT
                           !.self = PatchedAttribute_init(pattr.attribute_to_patch, v)])
             IN  /\ obj' = w.obj /\ ret' = w.ret /\ exc' = w.exc
                 /\ nest' = Pushed(w.self)
        /\ UNCHANGED <<mapping, calls>>
     \/ /\ scope.class = "PatchedItem"
        /\ \E v \in NestStrs :
             LET w == call_enter("PatchedItem",
                        [World(<<>>) EXCEPT
                           !.self = PatchedItem_init(scope.item_to_patch, v)])
             IN  /\ mapping' = w.mapping /\ ret' = w.ret /\ exc' = w.exc
                 /\ calls' = w.calls /\ nest' = Pushed(w.self)
        /\ UNCHANGED obj
  /\ before' = IF nest.entered = 0 THEN [before EXCEPT !.value = NestState] ELSE before
  /\ NestFrame /\ UNCHANGED steps

(* the protected code assigns the attribute or key *)
NestBodySet ==
  /\ nest.stack # <<>> /\ steps < MaxBodySteps
  /\ \/ /\ scope.class = "ContextManager"
        /\ \E v \in NestValues : obj' = setattr(AttrWorld, pattr.attribute_to_patch, v).obj
        /\ UNCHANGED mapping
     \/ /\ scope.class = "PatchedItem"
        /\ \E v \in NestStrs : mapping' = With(mapping, scope.item_to_patch, v)
        /\ UNCHANGED obj
  /\ steps' = steps + 1
  /\ NestFrame /\ UNCHANGED <<nest, before, ret, exc, calls>>

(* the protected code deletes the attribute or key *)
NestBodyDel ==
  /\ nest.stack # <<>> /\ steps < MaxBodySteps
  /\ \/ /\ scope.class = "ContextManager"
        /\ pattr.attribute_to_patch \in DOMAIN obj.inst
        /\ obj' = delattr(AttrWorld, pattr.attribute_to_patch).obj
        /\ UNCHANGED mapping
     \/ /\ scope.class = "PatchedItem"
        /\ scope.item_to_patch \in DOMAIN mapping
        /\ mapping' = Without(mapping, scope.item_to_patch)
        /\ UNCHANGED obj
  /\ steps' = steps + 1
  /\ NestFrame /\ UNCHANGED <<nest, before, ret, exc, calls>>

(* the innermost with statement ends: __exit__ of the last instance entered *)
NestExit ==
  /\ nest.stack # <<>>
  /\ LET top == nest.stack[Len(nest.stack)]
     IN  \/ /\ scope.class = "ContextManager"
            /\ LET w == PatchedAttribute_exit([AttrWorld EXCEPT !.self = top.self])
               IN  obj' = w.obj /\ ret' = w.ret /\ exc' = w.exc
            /\ UNCHANGED <<mapping, calls>>
         \/ /\ scope.class = "PatchedItem"
            /\ LET w == call_exit("PatchedItem", [World(<<>>) EXCEPT !.self = top.self])
               IN  /\ mapping' = w.mapping /\ ret' = w.ret /\ exc' = w.exc
                   /\ calls' = w.calls
            /\ UNCHANGED obj
  /\ nest' = [nest EXCEPT !.stack = SubSeq(@, 1, Len(@) - 1)]
  /\ NestFrame /\ UNCHANGED <<before, steps>>

NextNest == NestEnter \/ NestBodySet \/ NestBodyDel \/ NestExit

SpecNest == InitNest /\ [][NextNest]_vars

-----------------------------------------------------------------------------
(* retry(func, timeout, exc_type).  Time is counted in tenths of a second  *)
(* and advances only in time.sleep().  The operation fails (raises         *)
(* exc_type, or returns False) func.n times, or forever, and then returns  *)
(* a value; an operation of kind "mixed" fails by raising and by returning *)
(* False in turn.  func.start is time.time() when retry() is called.       *)

MaxFailures == 12

MaxTimeout == 127

(* pause = 0.1 *)
InitialPause == 1

(* the 1 of "if pause < 1" *)
PauseLimit == 10

InitRetry ==
  /\ InitCommon /\ InitNoAttr /\ InitNoItem /\ InitNoCli
  /\ now \in {0, 3}
  /\ \E kind \in {"raise", "false", "mixed"}, forever \in BOOLEAN,
        n \in 0..MaxFailures, timeout \in (0 - 1)..MaxTimeout :
       /\ func = [kind |-> kind, forever |-> forever, n |-> n, timeout |-> timeout,
                  start |-> now]
       /\ toFail = n
       /\ deadline = now + timeout
  /\ pause = InitialPause
  /\ attempts = 0
  /\ outcome = "running"

(* what the next call of the operation does: "raise", "false" or "value" *)
Attempt ==
  IF func.forever \/ toFail > 0
    THEN IF func.kind = "mixed"
           THEN IF attempts % 2 = 0 THEN "raise" ELSE "false"
           ELSE func.kind
    ELSE "value"

(* if pause < 1: pause *= 2 *)
NextPause(p) == IF p < PauseLimit THEN p * 2 ELSE p

(* time.sleep(pause) and the adjustment of pause that ends an iteration *)
Sleep ==
  /\ now' = now + pause
  /\ pause' = NextPause(pause)
  /\ outcome' = outcome

RetryFrame == UNCHANGED <<pc, attrVars, itemVars, nestVars, cliVars, target, ret, exc, calls, bodyExc,
                          before, steps, func, deadline>>

(* variant: the deadline is tested after a successful attempt as well *)
RetryReturns_deadline ==
  /\ outcome = "running" /\ Attempt = "value"
  /\ attempts' = attempts + 1
  /\ outcome' = IF now > deadline THEN "timedout" ELSE "returned"
  /\ UNCHANGED <<toFail, now, pause>>
  /\ RetryFrame

(* an iteration in which the operation returns a value other than False *)
RetryReturns ==
  /\ outcome = "running" /\ Attempt = "value"
  /\ attempts' = attempts + 1
  /\ outcome' = "returned"
  /\ UNCHANGED <<toFail, now, pause>>
  /\ RetryFrame

(* variant: the deadline test is "time.time() >= timeout" *)
RetryRaises_ge ==
  /\ outcome = "running" /\ Attempt = "raise"
  /\ attempts' = attempts + 1
  /\ toFail' = IF toFail > 0 THEN toFail - 1 ELSE 0
  /\ IF now >= deadline
       THEN outcome' = "raised" /\ UNCHANGED <<now, pause>>
       ELSE Sleep
  /\ RetryFrame

(* an iteration in which the operation raises exc_type *)
RetryRaises ==
  /\ outcome = "running" /\ Attempt = "raise"
  /\ attempts' = attempts + 1
  /\ toFail' = IF toFail > 0 THEN toFail - 1 ELSE 0
  /\ IF now > deadline
       THEN outcome' = "raised" /\ UNCHANGED <<now, pause>>
       ELSE Sleep
  /\ RetryFrame

(* variant: the else branch re-raises instead of raising CallableTimedOut *)
RetryFalse_reraise ==
  /\ outcome = "running" /\ Attempt = "false"
  /\ attempts' = attempts + 1
  /\ toFail' = IF toFail > 0 THEN toFail - 1 ELSE 0
  /\ IF now > deadline
       THEN outcome' = "raised" /\ UNCHANGED <<now, pause>>
       ELSE Sleep
  /\ RetryFrame

(* an iteration in which the operation returns False *)
RetryFalse ==
  /\ outcome = "running" /\ Attempt = "false"
  /\ attempts' = attempts + 1
  /\ toFail' = IF toFail > 0 THEN toFail - 1 ELSE 0
  /\ IF now > deadline
       THEN outcome' = "timedout" /\ UNCHANGED <<now, pause>>
       ELSE Sleep
  /\ RetryFrame

NextRetry == RetryReturns \/ RetryRaises \/ RetryFalse

SpecRetry == InitRetry /\ [][NextRetry]_vars

(* retry() is a sequential loop: while it has not ended it takes its next   *)
(* iteration                                                                *)
SpecRetryFair == SpecRetry /\ WF_vars(NextRetry)

-----------------------------------------------------------------------------
(* C1: PatchedAttribute.__enter__ followed by __exit__ leaves the attribute *)
(* as it was before enter: the same value (None and falsy values included), *)
(* or absent again if it was absent.                                        *)
C1_AttributeRestored ==
  pc = "exited" => getattr(obj, pattr.attribute_to_patch, NOTHING) = before.value

C1_Witness ==
  /\ pc = "exited" /\ exc = "" /\ steps = 0
  /\ before.value = Some("None")
  /\ pattr.attribute_to_patch \notin DOMAIN obj.klass
  /\ pattr.patched_value = "new"

(* C2: PatchedItem.__enter__ followed by __exit__ leaves the key as it was  *)
(* before enter: mapped to its original value, or absent again.             *)
C2_ItemRestored ==
  pc = "exited" =>
    /\ scope.item_to_patch \in DOMAIN mapping <=> before.value # NOTHING
    /\ before.value # NOTHING => mapping[scope.item_to_patch] = before.value[1]

C2_Witness ==
  /\ pc = "exited" /\ exc = "" /\ steps = 0
  /\ before.value = NOTHING
  /\ scope.item_to_patch \notin DOMAIN mapping
  /\ scope.patched_value # <<>>

(* C3: if the mock executable was never run before exit (the signal file   *)
(* does not exist when __exit__ is called) MockedProgram.__exit__ raises   *)
(* an assertion failure to its caller, whether or not the body raised; if  *)
(* the executable was run, __exit__ raises nothing.                        *)
C3_ExitAssertsProgramRan ==
  [][(pc = "body" /\ pc' = "exited" /\ scope.class = "MockedProgram") =>
       IF scope.program_signal_file[1] \in files
         THEN exc' = ""
         ELSE exc' = "AssertionError"]_vars

PathRestored ==
  /\ "PATH" \in DOMAIN mapping <=> before.value # NOTHING
  /\ before.value # NOTHING => mapping["PATH"] = before.value[1]

(* C4: on MockedProgram.__exit__ the signal-file check is evaluated first  *)
(* and the inherited cleanup runs whether the check passed or failed:      *)
(* after exit PATH equals its pre-enter value, or is absent if it was      *)
(* absent before enter.                                                    *)
C4_CleanupAfterCheck ==
  (pc = "exited" /\ scope.class = "MockedProgram") =>
    /\ Len(calls) > 1 /\ calls[1].op = "isfile"
    /\ \E i \in 2..Len(calls) : calls[i].op \in {"rmtree", "setitem", "delitem"}
    /\ PathRestored

C4_Witness ==
  /\ pc = "exited" /\ scope.class = "MockedProgram"
  /\ scope.program_signal_file[1] \notin files
  /\ scope.program_signal_file[1].dir \in dirs
  /\ before.value = Some(<<"u", ":", "v">>)
  /\ PathRestored

OriginalSearchPath == IF before.value = NOTHING THEN defpath ELSE before.value[1]

(* C5: while a CustomSearchPath scope is active PATH equals new_dir +      *)
(* pathsep + original search path when isolated is false and new_dir when  *)
(* isolated is true (new_dir being what __enter__ returned, the original   *)
(* search path the PATH at enter, os.defpath when unset); after __exit__   *)
(* the PATH entry is exactly what it was before enter.                     *)
C5_SearchPathValue ==
  /\ (pc = "body" /\ steps = 0 /\ scope.class \in {"CustomSearchPath", "MockedProgram"}) =>
       /\ "PATH" \in DOMAIN mapping
       /\ mapping["PATH"] = IF scope.isolated_search_path THEN target.val
                            ELSE target.val \o <<pathsep>> \o OriginalSearchPath
  /\ (pc = "exited" /\ scope.class \in {"CustomSearchPath", "MockedProgram"}) =>
       PathRestored

C5_Witness ==
  /\ pc = "body" /\ steps = 0 /\ scope.class = "CustomSearchPath"
  /\ ~scope.isolated_search_path
  /\ before.value = Some(<<"u", ":", "v">>)
  /\ mapping["PATH"] = target.val \o <<":", "u", ":", "v">>

(* C6: after CustomSearchPath (or MockedProgram) __enter__ followed by     *)
(* __exit__ the directory __enter__ returned no longer exists and no other *)
(* directory the scope created remains.                                    *)
C6_CreatedDirectoriesRemoved ==
  (pc = "exited" /\ scope.class \in {"CustomSearchPath", "MockedProgram"}) =>
    /\ target.val \notin dirs
    /\ dirs \subseteq before.dirs

(* C7: CustomSearchPath.__exit__ tears down in reverse order of            *)
(* acquisition: PATH is restored first and only afterwards is the          *)
(* temporary directory removed.                                            *)
C7_RestoreThenRemove ==
  (pc = "exited" /\ exc = "" /\ scope.class \in {"CustomSearchPath", "MockedProgram"}) =>
    \E i, j \in 1..Len(calls) :
      /\ i < j
      /\ calls[i].op \in {"setitem", "delitem"} /\ calls[i].arg = <<"PATH">>
      /\ calls[j].op = "rmtree"
      /\ \A k \in 1..i : calls[k].op # "rmtree"

(* C8: TemporaryDirectory: immediately after __enter__ the returned path   *)
(* is an existing directory; after an __exit__ that completed it does not  *)
(* exist and the stored path is None; a second __exit__ after that raises  *)
(* nothing and removes nothing.                                            *)
C8_TemporaryDirectoryLifecycle ==
  [][/\ (pc # "body" /\ pc' = "body") =>
          (target'.val \in dirs' /\ scope'.temporary_directory = Some(target'.val))
     /\ (pc = "body" /\ pc' = "exited" /\ exc' = "") =>
          (target.val \notin dirs' /\ scope'.temporary_directory = None)
     /\ (pc = "exited" /\ exc = "" /\ pc' = "exited2") =>
          (exc' = "" /\ dirs' = dirs /\ files' = files /\ calls' = <<>>)]_vars

C8_Witness ==
  /\ pc = "exited2" /\ exc = "" /\ scope.class = "TemporaryDirectory"
  /\ target.val \notin dirs /\ scope.temporary_directory = None

(* C9: TemporaryDirectory.__exit__ tolerates the protected code having     *)
(* emptied or removed the directory: the first __exit__ completes without  *)
(* raising and leaves the directory absent and the stored path cleared.    *)
C9_ExitTolerant ==
  (pc = "exited" /\ scope.class = "TemporaryDirectory") =>
    /\ exc = ""
    /\ target.val \notin dirs
    /\ scope.temporary_directory = None

(* the backoff cap the documentation states: one second *)
MaxBackoff == 10

(* C10: for every N and timeout with N * max_backoff < timeout, retry of   *)
(* an operation that raises the retried failure kind exactly N times and   *)
(* then returns a value V returns V and raises nothing.                    *)
C10_RetryReturnsValue ==
  (/\ func.kind = "raise" /\ ~func.forever
   /\ func.n * MaxBackoff < func.timeout
   /\ outcome # "running") => outcome = "returned"

(* C11: for every finite timeout, retry of an operation that always        *)
(* returns False and never raises eventually ends by raising               *)
(* CallableTimedOut; it never raises the retried failure kind and never    *)
(* returns a value.                                                        *)
C11_AlwaysFalseTimesOut ==
  (func.kind = "false" /\ func.forever) =>
    /\ <>(outcome = "timedout")
    /\ [](outcome \notin {"raised", "returned"})

C11_Witness ==
  /\ func.kind = "false" /\ func.forever /\ func.timeout > 0
  /\ outcome = "timedout" /\ attempts > 2

(* C12: the sleep between attempts starts at 0.1, doubles after each       *)
(* attempt and is capped at 1.0: no sleep of retry is longer than 1.0.     *)
C12_SleepCapped ==
  [][/\ now' - now <= MaxBackoff
     /\ (attempts = 0 /\ now' # now) => now' - now = InitialPause]_vars

(* what the most recent call of a failing operation did *)
LastAttempt ==
  IF func.kind = "mixed"
    THEN IF attempts % 2 = 1 THEN "raise" ELSE "false"
    ELSE func.kind

(* C13: the return code of run_cli is the status code of SystemExit when   *)
(* the entry point exits with an explicit code, 0 when it exits without a  *)
(* code, and 0 when it returns normally; in each case an integer, never a  *)
(* null value.                                                             *)
C13_ReturnCodeIsInteger ==
  (pc = "done" /\ cli.test = "run_cli" /\ cli.raised = "") =>
    /\ cli.returncode # None
    /\ cli.returncode = IF cli.end = "SystemExit" /\ cli.code # None
                          THEN cli.code ELSE Some(0)

(* C14: after run_cli finishes by any path (normal return, SystemExit, or  *)
(* another failure that propagates), sys.argv, sys.stdin, sys.stdout and   *)
(* sys.stderr are the same objects as before the call.                     *)
C14_SysRestored ==
  (pc = "done" /\ cli.test = "run_cli") =>
    \A name \in SysNames : getattr(obj, name, NOTHING) = Some(cli.saved[name])

C14_Witness ==
  /\ pc = "done" /\ cli.test = "run_cli" /\ cli.raised = "ValueError"
  /\ steps > 0 /\ cli.saved.stdout = "None"
  /\ \A name \in SysNames : getattr(obj, name, NOTHING) = Some(cli.saved[name])

RECURSIVE TextWritten(_, _)
(* the texts of the writes ws that went to one of the streams, in order *)
TextWritten(ws, streams) ==
  IF ws = <<>> THEN <<>>
  ELSE IF Head(ws).stream \in streams
         THEN <<Head(ws).text>> \o TextWritten(Tail(ws), streams)
         ELSE TextWritten(Tail(ws), streams)

(* C15: inside a CaptureOutput scope with merged=true the writes to the    *)
(* output and error streams are in one buffer in the order they occurred   *)
(* and getvalue() returns that text; with merged=false they are in two     *)
(* separate buffers and getvalue() returns the text written to the output  *)
(* stream only.                                                            *)
C15_CapturedText ==
  (cli.test # "none" /\ pc = "body" /\ steps = 0) =>
    IF cli.merged
      THEN /\ capture.stderr = capture.stdout
           /\ CaptureOutput_getvalue(capture, buffers) =
                TextWritten(written, {"stdout", "stderr"})
      ELSE /\ capture.stderr # capture.stdout
           /\ CaptureOutput_getvalue(capture, buffers) =
                TextWritten(written, {"stdout"})
           /\ buffers[capture.stderr] = TextWritten(written, {"stderr"})

C15_Witness ==
  /\ cli.test = "capture" /\ cli.merged /\ pc = "body" /\ steps = 0
  /\ written = <<[stream |-> "stderr", text |-> "b"],
                 [stream |-> "stdout", text |-> "a"]>>
  /\ CaptureOutput_getvalue(capture, buffers) = <<"b", "a">>

(* C16: CaptureOutput.__enter__ activates its patches in the order stdin,  *)
(* stdout, stderr and CaptureOutput.__exit__ deactivates them in the       *)
(* reverse order stderr, stdout, stdin.                                    *)
C16_ExitInReverseOrder ==
  /\ (cli.test = "capture" /\ pc = "body") =>
       calls = <<Call("__enter__", <<"stdin">>), Call("__enter__", <<"stdout">>),
                 Call("__enter__", <<"stderr">>)>>
  /\ (cli.test = "capture" /\ pc = "exited" /\ exc = "") =>
       calls = <<Call("__exit__", <<"stderr">>), Call("__exit__", <<"stdout">>),
                 Call("__exit__", <<"stdin">>)>>

(* C17: no scope swallows a failure raised by the protected body: when    *)
(* the body raised and __exit__ is called with it, __exit__ of             *)
(* PatchedAttribute, PatchedItem, TemporaryDirectory, CustomSearchPath,    *)
(* MockedProgram and CaptureOutput returns no truthy value, so the body's  *)
(* failure or a failure of the exit itself reaches the caller (of run_cli  *)
(* too).                                                                   *)
C17_NeverSuppresses ==
  /\ (pc \in {"exited", "exited2"} /\ bodyExc # "") => (exc # "" \/ ret = RNone)
  /\ (pc = "done" /\ bodyExc # "") => cli.raised # ""

C17_Witness ==
  /\ pc = "exited" /\ bodyExc = "ValueError" /\ scope.class = "MockedProgram"
  /\ exc = "" /\ ret = RNone

(* C18: retry raises the retried failure kind only when its final attempt  *)
(* raised that kind at a time strictly past start + timeout, and raises    *)
(* CallableTimedOut only when its final attempt returned False at a time   *)
(* strictly past start + timeout; before the deadline neither ends the     *)
(* loop.                                                                   *)
C18_FailureKindsDistinct ==
  /\ outcome = "raised" =>
       (LastAttempt = "raise" /\ now > func.start + func.timeout)
  /\ outcome = "timedout" =>
       (LastAttempt = "false" /\ now > func.start + func.timeout)

C18_Witness ==
  /\ func.kind = "mixed" /\ outcome = "raised" /\ attempts > 2
  /\ now > func.start + func.timeout

(* C19: for PatchedAttribute (or PatchedItem) scopes nested on the same   *)
(* object and attribute (key) and exited in the reverse of the order they  *)
(* were entered, each exit puts the attribute (key) back to the state it   *)
(* had just before the matching enter, so after the last exit the original *)
(* value or the original absence is restored.                              *)
C19_NestedExitsRestore ==
  [][Len(nest'.stack) < Len(nest.stack) =>
       /\ NestState' = nest.stack[Len(nest.stack)].before
       /\ nest'.stack = <<>> => NestState' = before.value]_vars

C19_Witness ==
  /\ nest.stack = <<>> /\ nest.deepest >= 3 /\ steps > 0
  /\ before.value = NOTHING /\ NestState = NOTHING

(* C20: PatchedAttribute and PatchedItem raise no error of their own:      *)
(* however the protected body left the patched attribute or key            *)
(* (unchanged, assigned another value, or deleted), __exit__ completes     *)
(* without raising and leaves the attribute or key in its pre-enter state. *)
C20_ExitNeverRaises ==
  (pc = "exited" /\ scope.class \in {"ContextManager", "PatchedItem"}) =>
    /\ exc = ""
    /\ scope.class = "ContextManager" =>
         getattr(obj, pattr.attribute_to_patch, NOTHING) = before.value
    /\ scope.class = "PatchedItem" =>
         (IF scope.item_to_patch \in DOMAIN mapping
            THEN Some(mapping[scope.item_to_patch]) ELSE NOTHING) = before.value

(* C21: retry invokes the operation at least once for every timeout, a   *)
(* timeout of zero or less included, and a result other than False is      *)
(* returned at once as success even when the deadline has already passed:  *)
(* the deadline is consulted only after an attempt that raised the retried *)
(* failure kind or returned False, so a successful attempt never becomes a *)
(* timeout failure.                                                        *)
C21_SuccessIgnoresDeadline ==
  [][/\ outcome' # "running" => attempts' >= 1
     /\ (outcome = "running" /\ Attempt = "value") => outcome' = "returned"
     /\ (outcome = "running" /\ outcome' \in {"raised", "timedout"}) =>
          (Attempt \in {"raise", "false"} /\ now > deadline)]_vars

C21_Witness ==
  /\ func.timeout <= 0 /\ outcome = "returned" /\ now > deadline
  /\ attempts >= 1

====
